---- MODULE Spec2Model ----
(***************************************************************************)
(* Model of the SWE-agent Flask API server (sweagent/api/server.py) and of *)
(* its polling test client (tutorial_poc.py).                              *)
(*                                                                         *)
(* Server: each request is served by a handler thread.  A handler is cut   *)
(* at the only blocking call it makes, run_swe_agent (the Executor): the   *)
(* step that enters the call and the step on which the call returns or     *)
(* raises.  Everything else a handler does between two such points is one  *)
(* action.                                                                 *)
(*                                                                         *)
(* Client: wait_for_completion is cut at the loop test and at the poll.    *)
(***************************************************************************)
EXTENDS Integers, Sequences, FiniteSets, TLC

VARIABLES
    pc,        \* handler -> position of the handler in its route function
    request,   \* handler -> the request it serves (route and parsed JSON body)
    idx,       \* handler -> i, the enumerate() index of run_batch_agent's loop
    results,   \* handler -> the local list `results` of run_batch_agent
    response,  \* handler -> what the route function returned (body, HTTP code)
    calls,     \* handler -> the run_swe_agent invocations it made, in order
    cpc,       \* client: position in wait_for_completion / run_full_demo
    timeout,   \* client: the timeout argument of wait_for_completion
    now,       \* client: time.time() - start_time, in seconds
    lastPoll,  \* client: what the latest get_trajectory call gave
    polls,     \* client: number of get_trajectory calls wait_for_completion made
    ret,       \* client: the value wait_for_completion returned
    cause,     \* client: the branch wait_for_completion returned from
    sent       \* client: the HTTP requests issued for the run, in order

serverVars == <<pc, request, idx, results, response, calls>>
clientVars == <<cpc, timeout, now, lastPoll, polls, ret, cause, sent>>
vars == <<pc, request, idx, results, response, calls,
          cpc, timeout, now, lastPoll, polls, ret, cause, sent>>

----------------------------------------------------------------------------
(* Bounds *)

\* longest "problems" list posted to /batch-run
MaxBatch == 2
\* largest timeout handed to wait_for_completion, in seconds
MaxTimeout == 15
\* longest time one get_trajectory call takes, in seconds
MaxPollTime == 1

\* handler threads of the server
Handlers == {1, 2}

----------------------------------------------------------------------------
(* JSON values *)

\* Python's None: what dict.get gives for a key that is not there
NoneVal == "None"
\* marks a key a JSON body does not hold
Absent == "<absent>"

ProblemStatements == {NoneVal, "", "fix bug X"}
InstanceIds == {Absent, "r1"}

\* an element of the "problems" list: a JSON object, or any other JSON value
ScalarItem == [kind |-> "scalar", problem_statement |-> NoneVal, instance_id |-> Absent]
ObjectItems ==
    [kind : {"object"}, problem_statement : ProblemStatements, instance_id : InstanceIds]
Items == {ScalarItem} \cup ObjectItems

RECURSIVE SeqsUpTo(_, _)
SeqsUpTo(S, n) ==
    IF n = 0 THEN {<<>>}
    ELSE LET shorter == SeqsUpTo(S, n - 1)
         IN  shorter \cup {Append(s, x) : s \in {t \in shorter : Len(t) = n - 1}, x \in S}

\* A request: its route and request.get_json().  kind is "falsy" (None, {}, [], 0,
\* ""), "scalar" (a truthy value that is no dict: a list, a string, a number) or
\* "object" (a dict)
Req(route, kind, ps, id, isList, problems) ==
    [route |-> route, kind |-> kind, problem_statement |-> ps, instance_id |-> id,
     problems_is_list |-> isList, problems |-> problems]

RunRequests ==
    {Req("run", "falsy", NoneVal, Absent, FALSE, <<>>),
     Req("run", "scalar", NoneVal, Absent, FALSE, <<>>)}
    \cup {Req("run", "object", ps, id, FALSE, <<>>) :
            ps \in ProblemStatements, id \in InstanceIds}

BatchRequests ==
    {Req("batch", "falsy", NoneVal, Absent, FALSE, <<>>),
     Req("batch", "scalar", NoneVal, Absent, FALSE, <<>>),
     Req("batch", "object", NoneVal, Absent, FALSE, <<>>)}
    \cup {Req("batch", "object", NoneVal, Absent, TRUE, ps) : ps \in SeqsUpTo(Items, MaxBatch)}

Requests == RunRequests \cup BatchRequests

NoRequest == Req("none", "falsy", NoneVal, Absent, FALSE, <<>>)

----------------------------------------------------------------------------
(* Responses *)

Resp(code, status, id, error, result, total, res) ==
    [code |-> code, status |-> status, instance_id |-> id, error |-> error,
     result |-> result, total |-> total, results |-> res]

NoResponse == Resp(0, Absent, Absent, Absent, Absent, Absent, <<>>)

\* str(e) of what run_swe_agent raised
ExecutorError == "executor failed"
\* str(e) of the AttributeError of <non-dict>.get
AttributeError == "object has no attribute 'get'"

\* run_swe_agent's return value
ResultOf(id) == <<"Completed successfully. Output directory: ", id>>

\* Python truthiness of a problem_statement
Truthy(ps) == ps \notin {NoneVal, ""}

\* data.get("instance_id", "default-instance")
RunInstanceId(req) ==
    IF req.instance_id = Absent THEN "default-instance" ELSE req.instance_id

\* problem.get("instance_id", f"instance-{i}")
BatchInstanceId(item, i) ==
    IF item.instance_id = Absent THEN <<"instance-", i>> ELSE item.instance_id

SuccessEntry(id) ==
    [instance_id |-> id, status |-> "success", result |-> ResultOf(id), error |-> Absent]

ErrorEntry_TaggedSuccess(id, msg) ==
    [instance_id |-> id, status |-> "success", result |-> Absent, error |-> msg]

ErrorEntry(id, msg) ==
    [instance_id |-> id, status |-> "error", result |-> Absent, error |-> msg]

----------------------------------------------------------------------------
(* The Executor: run_swe_agent *)

Call(k, ps, id, assigned) ==
    [index |-> k, problem_statement |-> ps, instance_id |-> id,
     assigned |-> assigned, state |-> "running"]

\* the handler enters run_swe_agent: the temporary workspace of the run exists
\* from here until the call returns or raises
run_swe_agent_enter(h, k, ps, id, assigned) ==
    calls' = [calls EXCEPT ![h] = Append(@, Call(k, ps, id, assigned))]

\* the call of handler h that has not come back yet
Current(h) == calls[h][Len(calls[h])]

run_swe_agent_exit(h, how) ==
    calls' = [calls EXCEPT ![h][Len(calls[h])].state = how]

InFlight(h) == Len(calls[h]) > 0 /\ Current(h).state = "running"

----------------------------------------------------------------------------
(* The server *)

ServerIdle(active) ==
    /\ pc = [h \in Handlers |-> IF h \in active THEN "idle" ELSE "off"]
    /\ request = [h \in Handlers |-> NoRequest]
    /\ idx = [h \in Handlers |-> 0]
    /\ results = [h \in Handlers |-> <<>>]
    /\ response = [h \in Handlers |-> NoResponse]
    /\ calls = [h \in Handlers |-> <<>>]

ClientIdle ==
    /\ cpc = "off"
    /\ timeout = 0
    /\ now = 0
    /\ lastPoll = "none"
    /\ polls = 0
    /\ ret = "none"
    /\ cause = "none"
    /\ sent = <<>>

\* one request at a time
Init == ServerIdle({1}) /\ ClientIdle

\* the threaded server: two requests served at once
ConcInit == ServerIdle(Handlers) /\ ClientIdle

Reply(h, r) ==
    /\ response' = [response EXCEPT ![h] = r]
    /\ pc' = [pc EXCEPT ![h] = "done"]

\* a request arrives and Flask routes it
Receive(h) ==
    /\ pc[h] = "idle"
    /\ \E req \in Requests :
         /\ request' = [request EXCEPT ![h] = req]
         /\ pc' = [pc EXCEPT ![h] = req.route]
    /\ UNCHANGED <<idx, results, response, calls>>
    /\ UNCHANGED clientVars

\* run_agent, up to the call of run_swe_agent
run_agent(h) ==
    /\ pc[h] = "run"
    /\ LET req == request[h] IN
         IF req.kind = "falsy" THEN
            /\ Reply(h, Resp(400, Absent, Absent, "No JSON data provided", Absent, Absent, <<>>))
            /\ UNCHANGED calls
         ELSE IF req.kind = "scalar" THEN
            \* data.get raises AttributeError: the outer except
            /\ Reply(h, Resp(500, "error", Absent, AttributeError, Absent, Absent, <<>>))
            /\ UNCHANGED calls
         ELSE IF ~Truthy(req.problem_statement) THEN
            /\ Reply(h, Resp(400, Absent, Absent, "problem_statement is required",
                             Absent, Absent, <<>>))
            /\ UNCHANGED calls
         ELSE
            /\ run_swe_agent_enter(h, 0, req.problem_statement, RunInstanceId(req),
                      req.instance_id = Absent)
            /\ pc' = [pc EXCEPT ![h] = "run_exec"]
            /\ UNCHANGED response
    /\ UNCHANGED <<request, idx, results>>
    /\ UNCHANGED clientVars

\* run_swe_agent returned
run_agent_return(h) ==
    /\ pc[h] = "run_exec"
    /\ run_swe_agent_exit(h, "returned")
    /\ Reply(h, Resp(200, "success", Current(h).instance_id, Absent,
                     ResultOf(Current(h).instance_id), Absent, <<>>))
    /\ UNCHANGED <<request, idx, results>>
    /\ UNCHANGED clientVars

\* run_swe_agent raised: the inner except
run_agent_except(h) ==
    /\ pc[h] = "run_exec"
    /\ run_swe_agent_exit(h, "raised")
    /\ Reply(h, Resp(500, "error", Current(h).instance_id, ExecutorError,
                     Absent, Absent, <<>>))
    /\ UNCHANGED <<request, idx, results>>
    /\ UNCHANGED clientVars

\* run_batch_agent, up to the loop
run_batch_agent(h) ==
    /\ pc[h] = "batch"
    /\ LET req == request[h] IN
         IF req.kind = "falsy" THEN
            /\ Reply(h, Resp(400, Absent, Absent, "No JSON data provided", Absent, Absent, <<>>))
            /\ UNCHANGED <<idx, results>>
         ELSE IF req.kind = "scalar" THEN
            /\ Reply(h, Resp(500, "error", Absent, AttributeError, Absent, Absent, <<>>))
            /\ UNCHANGED <<idx, results>>
         ELSE IF ~req.problems_is_list \/ Len(req.problems) = 0 THEN
            /\ Reply(h, Resp(400, Absent, Absent, "problems must be a non-empty list",
                             Absent, Absent, <<>>))
            /\ UNCHANGED <<idx, results>>
         ELSE
            /\ results' = [results EXCEPT ![h] = <<>>]
            /\ idx' = [idx EXCEPT ![h] = 0]
            /\ pc' = [pc EXCEPT ![h] = "loop"]
            /\ UNCHANGED response
    /\ UNCHANGED <<request, calls>>
    /\ UNCHANGED clientVars

\* one turn of the loop, up to the call of run_swe_agent
run_batch_agent_item(h) ==
    /\ pc[h] = "loop"
    /\ idx[h] < Len(request[h].problems)
    /\ LET item == request[h].problems[idx[h] + 1] IN
         IF item.kind # "object" THEN
            \* problem.get raises AttributeError outside the inner try
            /\ Reply(h, Resp(500, "error", Absent, AttributeError, Absent, Absent, <<>>))
            /\ UNCHANGED calls
         ELSE
            /\ run_swe_agent_enter(h, idx[h], item.problem_statement, BatchInstanceId(item, idx[h]),
                      item.instance_id = Absent)
            /\ pc' = [pc EXCEPT ![h] = "batch_exec"]
            /\ UNCHANGED response
    /\ UNCHANGED <<request, idx, results>>
    /\ UNCHANGED clientVars

\* run_swe_agent returned inside the loop
run_batch_agent_item_return(h) ==
    /\ pc[h] = "batch_exec"
    /\ run_swe_agent_exit(h, "returned")
    /\ results' = [results EXCEPT ![h] = Append(@, SuccessEntry(Current(h).instance_id))]
    /\ idx' = [idx EXCEPT ![h] = @ + 1]
    /\ pc' = [pc EXCEPT ![h] = "loop"]
    /\ UNCHANGED <<request, response>>
    /\ UNCHANGED clientVars

\* run_swe_agent raised inside the loop: the inner except
run_batch_agent_item_except(h) ==
    /\ pc[h] = "batch_exec"
    /\ run_swe_agent_exit(h, "raised")
    /\ results' = [results EXCEPT ![h] =
                     Append(@, ErrorEntry(Current(h).instance_id, ExecutorError))]
    /\ idx' = [idx EXCEPT ![h] = @ + 1]
    /\ pc' = [pc EXCEPT ![h] = "loop"]
    /\ UNCHANGED <<request, response>>
    /\ UNCHANGED clientVars

\* the loop is over: the batch response
run_batch_agent_respond(h) ==
    /\ pc[h] = "loop"
    /\ idx[h] = Len(request[h].problems)
    /\ Reply(h, Resp(200, "batch-complete", Absent, Absent, Absent,
                     Len(results[h]), results[h]))
    /\ UNCHANGED <<request, idx, results, calls>>
    /\ UNCHANGED clientVars

Next ==
    \E h \in Handlers :
        \/ Receive(h)
        \/ run_agent(h)
        \/ run_agent_return(h)
        \/ run_agent_except(h)
        \/ run_batch_agent(h)
        \/ run_batch_agent_item(h)
        \/ run_batch_agent_item_return(h)
        \/ run_batch_agent_item_except(h)
        \/ run_batch_agent_respond(h)

Spec == Init /\ [][Next]_vars

ConcSpec == ConcInit /\ [][Next]_vars

----------------------------------------------------------------------------
(* The polling client: wait_for_completion, called by run_full_demo *)

\* time.sleep(5)
SleepSecs == 5

\* the values of result.get("status", "unknown")
PollStatuses ==
    {"queued", "running", "completed", "success", "failed", "error", "stopped", "unknown"}

\* the two lists wait_for_completion tests the status against
SuccessStatuses == {"completed", "success"}
FailureStatuses == {"failed", "error"}

\* what wait_for_completion returns from each of its three return statements
ReturnOnCompleted == "True"
ReturnOnFailed == "False"
ReturnOnTimeout == "False"

GetTrajectory == <<"GET", "/trajectory/{run_id}">>
PostRun == <<"POST", "/run">>
PostStop == <<"POST", "/run/{run_id}/stop">>

\* run_full_demo has started the run and calls wait_for_completion
ClientInit ==
    /\ ServerIdle({})
    /\ cpc = "while"
    /\ timeout \in 0..MaxTimeout
    /\ now = 0
    /\ lastPoll = "none"
    /\ polls = 0
    /\ ret = "none"
    /\ cause = "none"
    /\ sent = <<PostRun>>

\* while time.time() - start_time < timeout, and the return after the loop
wait_for_completion_while ==
    /\ cpc = "while"
    /\ IF now < timeout
       THEN /\ cpc' = "poll"
            /\ UNCHANGED <<ret, cause>>
       ELSE /\ cpc' = "returned"
            /\ ret' = ReturnOnTimeout
            /\ cause' = "timeout"
    /\ UNCHANGED <<timeout, now, lastPoll, polls, sent>>
    /\ UNCHANGED serverVars

\* get_trajectory answered with `status` after d seconds: the try block
wait_for_completion_try(status, d) ==
    /\ cpc = "poll"
    /\ sent' = Append(sent, GetTrajectory)
    /\ polls' = polls + 1
    /\ lastPoll' = status
    /\ IF status \in SuccessStatuses
       THEN /\ now' = now + d
            /\ ret' = ReturnOnCompleted
            /\ cause' = "completed"
            /\ cpc' = "returned"
       ELSE IF status \in FailureStatuses
       THEN /\ now' = now + d
            /\ ret' = ReturnOnFailed
            /\ cause' = "failed"
            /\ cpc' = "returned"
       ELSE /\ now' = now + d + SleepSecs
            /\ cpc' = "while"
            /\ UNCHANGED <<ret, cause>>
    /\ UNCHANGED timeout
    /\ UNCHANGED serverVars

\* a bug: the except block returns as for a failed run
wait_for_completion_except_gives_up(d) ==
    /\ cpc = "poll"
    /\ sent' = Append(sent, GetTrajectory)
    /\ polls' = polls + 1
    /\ lastPoll' = "raised"
    /\ now' = now + d
    /\ ret' = ReturnOnFailed
    /\ cause' = "failed"
    /\ cpc' = "returned"
    /\ UNCHANGED timeout
    /\ UNCHANGED serverVars

\* get_trajectory raised after d seconds: the except block
wait_for_completion_except(d) ==
    /\ cpc = "poll"
    /\ sent' = Append(sent, GetTrajectory)
    /\ polls' = polls + 1
    /\ lastPoll' = "raised"
    /\ now' = now + d + SleepSecs
    /\ cpc' = "while"
    /\ UNCHANGED <<timeout, ret, cause>>
    /\ UNCHANGED serverVars

\* run_full_demo after wait_for_completion: step 3 runs only on success
run_full_demo_step3 ==
    /\ cpc = "returned"
    /\ sent' = IF ret = "True" THEN Append(sent, GetTrajectory) ELSE sent
    /\ cpc' = "end"
    /\ UNCHANGED <<timeout, now, lastPoll, polls, ret, cause>>
    /\ UNCHANGED serverVars

ClientNext ==
    \/ wait_for_completion_while
    \/ \E status \in PollStatuses, d \in 0..MaxPollTime : wait_for_completion_try(status, d)
    \/ \E d \in 0..MaxPollTime : wait_for_completion_except(d)
    \/ run_full_demo_step3

ClientSpec == ClientInit /\ [][ClientNext]_vars

\* the client is a sequential program: sleep ends and every HTTP call it makes
\* carries a timeout, so its next step is always taken
FairClientSpec == ClientInit /\ [][ClientNext]_vars /\ WF_vars(ClientNext)

----------------------------------------------------------------------------
(* Properties of the server *)

Done(h) == pc[h] = "done"

IsBatchOfItems(h) ==
    /\ request[h].route = "batch"
    /\ request[h].kind = "object"
    /\ request[h].problems_is_list
    /\ Len(request[h].problems) > 0

\* a valid item is a JSON object with a non-empty problem_statement
ValidItem(item) ==
    item.kind = "object" /\ item.problem_statement \notin {NoneVal, ""}

\* the posted list holds a valid item and an invalid one
IsMixedBatch(h) ==
    /\ IsBatchOfItems(h)
    /\ \E k \in 1..Len(request[h].problems) : ValidItem(request[h].problems[k])
    /\ \E k \in 1..Len(request[h].problems) : ~ValidItem(request[h].problems[k])

\* C1: every non-empty list of items posted to /batch-run that mixes valid and
\* invalid items is answered with status "batch-complete", total = the number of
\* items, and one result entry per item, each tagged "success" or "error"; the
\* handler never aborts before that.
C1_BatchAlwaysCompletes ==
    \A h \in Handlers :
        (Done(h) /\ IsMixedBatch(h)) =>
            /\ response[h].status = "batch-complete"
            /\ response[h].total = Len(request[h].problems)
            /\ Len(response[h].results) = Len(request[h].problems)
            /\ \A k \in 1..Len(response[h].results) :
                  response[h].results[k].status \in {"success", "error"}

\* C2: in /batch-run the k-th result entry carries the k-th item's instance_id
\* (or "instance-k" when it gave none) and is tagged "error", with the captured
\* message, exactly when the Executor raised for item k and "success" otherwise;
\* an Executor failure on item k does not stop the loop: once the handler is done,
\* the Executor was invoked for the item after k unless that item's own lookup
\* failed; and the batch response holds the entries unchanged.
C2_PerItemIsolation ==
    \A h \in Handlers :
        request[h].route = "batch" =>
            /\ Len(results[h]) <= Len(calls[h])
            /\ \A k \in 1..Len(results[h]) :
                  LET item  == request[h].problems[k]
                      entry == results[h][k]
                      call  == calls[h][k]
                  IN  /\ call.index = k - 1
                      /\ entry.instance_id =
                            (IF item.instance_id = Absent
                             THEN <<"instance-", k - 1>> ELSE item.instance_id)
                      /\ (call.state = "raised") <=> (entry.status = "error")
                      /\ (call.state = "returned") <=> (entry.status = "success")
                      /\ call.state = "raised" => entry.error = ExecutorError
            /\ Done(h) =>
                  \A k \in 1..Len(calls[h]) :
                      (calls[h][k].state = "raised" /\ k < Len(request[h].problems)) =>
                          \/ Len(calls[h]) > k
                          \/ request[h].problems[k + 1].kind # "object"
            /\ response[h].status = "batch-complete" =>
                  /\ response[h].results = results[h]
                  /\ Len(results[h]) = Len(request[h].problems)

\* a batch whose first item failed in the Executor and whose second item succeeded
C2_Witness ==
    \E h \in Handlers :
        /\ Done(h)
        /\ response[h].status = "batch-complete"
        /\ Len(response[h].results) = 2
        /\ calls[h][1].state = "raised"
        /\ response[h].results[1].status = "error"
        /\ response[h].results[2].status = "success"

\* C3: when the Executor raises during an otherwise valid /run request, the
\* failure is in the response's error field with the instance_id preserved, and
\* the HTTP status is not 5xx.
C3_ExecutorFailureNot5xx ==
    \A h \in Handlers :
        (Done(h) /\ request[h].route = "run" /\ Len(calls[h]) = 1
            /\ calls[h][1].state = "raised") =>
            /\ response[h].error = ExecutorError
            /\ response[h].instance_id = calls[h][1].instance_id
            /\ response[h].code < 500

\* C4: run_swe_agent is never invoked with a missing or empty problem statement,
\* on /run and on /batch-run.
C4_ExecutorNeverGetsEmptyProblem ==
    \A h \in Handlers :
        \A k \in 1..Len(calls[h]) :
            calls[h][k].problem_statement \notin {NoneVal, ""}

\* C5: every /run request whose problem_statement is missing or empty gets HTTP
\* 400 with an error payload, and the Executor is not invoked (no workspace is
\* created) for it.
C5_MissingProblemRejected ==
    \A h \in Handlers :
        (Done(h) /\ request[h].route = "run"
            /\ (request[h].kind # "object"
                \/ request[h].problem_statement \in {NoneVal, ""})) =>
            /\ response[h].code = 400
            /\ response[h].error # Absent
            /\ calls[h] = <<>>

\* C6: /batch-run dispatches all items without waiting for any one of them: the
\* handler is never waiting for an Executor invocation while an item is still
\* undispatched; and the batch response exists only when no invocation is
\* running and every item has its entry.
C6_DispatchWithoutWaiting ==
    \A h \in Handlers :
        /\ (IsBatchOfItems(h) /\ InFlight(h)) =>
              Len(calls[h]) = Len(request[h].problems)
        /\ response[h].status = "batch-complete" =>
              /\ ~InFlight(h)
              /\ Len(response[h].results) = Len(request[h].problems)

Runs == {<<h, k>> : h \in Handlers, k \in 1..MaxBatch}
RunExists(r) == r[2] <= Len(calls[r[1]])
RunOf(r) == calls[r[1]][r[2]]

\* C7: an id the server assigned (the caller gave none) differs from the id of
\* every other run, in flight at the same time or finished.
C7_RunIdsUnique ==
    \A r1, r2 \in Runs :
        (r1 # r2 /\ RunExists(r1) /\ RunExists(r2) /\ RunOf(r1).assigned) =>
            RunOf(r1).instance_id # RunOf(r2).instance_id

----------------------------------------------------------------------------
(* Properties of the polling client *)

\* the terminal statuses of a run
TerminalStatuses == {"completed", "failed", "stopped"}

Returned == cpc \in {"returned", "end"}

\* C8: as soon as a poll returns a terminal status wait_for_completion stops
\* polling: completed or stopped ends the wait, failed ends it with the failure
\* reported; no further poll follows.
C8_StopsOnTerminal ==
    lastPoll \in TerminalStatuses =>
        /\ Returned
        /\ lastPoll = "failed" => cause = "failed"
        /\ lastPoll = "completed" => cause = "completed"

\* C9: a poll call that raises never ends the wait (the wait goes back to the
\* loop test with nothing returned); at the loop test the client polls again as
\* long as the timeout has not elapsed; wait_for_completion returns only after a
\* poll gave a status it ends on or after the timeout elapsed; and it always
\* returns.
C9_RetriesUntilTimeout ==
    /\ [][(cpc = "poll" /\ lastPoll' = "raised") =>
            (cpc' = "while" /\ ret' = "none" /\ cause' = "none")]_vars
    /\ [][(cpc = "while" /\ now < timeout) => cpc' = "poll"]_vars
    /\ [](Returned =>
            \/ cause = "timeout" /\ now >= timeout
            \/ cause \in {"completed", "failed"}
                 /\ lastPoll \in SuccessStatuses \cup FailureStatuses)
    /\ <>Returned

\* a poll raised, the client slept, and it is polling again
C9_Witness ==
    /\ cpc = "poll"
    /\ lastPoll = "raised"
    /\ polls >= 1
    /\ now < timeout

\* C10: what wait_for_completion reports on timeout differs from what it reports
\* for a failed run, and no stop request is sent for the run.
C10_TimeoutDistinctFromFailure ==
    /\ cause = "timeout" => ret # ReturnOnFailed
    /\ \A n \in 1..Len(sent) : sent[n] # PostStop

====
